---- MODULE Spec2Model ----
(***************************************************************************)
(* Model of runtimes/js/src/runtime.rs: the napi bridge between the JS     *)
(* host and encore_runtime_core.  Runtime::new (test-mode construction and *)
(* the process-wide RUNTIME OnceLock), run_forever, the accessors          *)
(* (pubsub_topic, pubsub_subscription, gateway, secret), handler           *)
(* registration and api_call.  The runtime core (encore_runtime_core) and  *)
(* the wrappers of crate::api, crate::pubsub and crate::gateway are not    *)
(* part of runtime.rs; their behaviour is modelled at the interface        *)
(* runtime.rs uses.                                                        *)
(***************************************************************************)
EXTENDS Integers, Sequences, FiniteSets, TLC

\* ---------------------------------------------------------------- bounds
NThreads == 2      \* OS threads that may call Runtime::new concurrently
MaxNew == 3        \* Runtime::new calls in one process
MaxRun == 2        \* run_forever calls in one process
MaxObjs == 2       \* Runtime::new calls of a host that goes on to use the objects
MaxServing == 1    \* Runtime::new calls of a host that serves endpoint calls
MaxShared == 2     \* non-test Runtime::new calls of a host that shares the singleton
MaxRoutes == 2     \* APIRoutes handed to the register_* operations
MaxList == 2       \* routes in one register_handlers call
MaxReqs == 1       \* endpoint calls in flight at once
MaxSubs == 1       \* subscriptions obtained with pubsub_subscription
MaxMsgs == 1       \* pub/sub messages being delivered at once

Threads == 1..NThreads
\* The process environment the core builder reads: malformed, a process that
\* hosts an API server, a process that hosts none (background work only).
Cfgs == {"bad", "api", "noapi"}
\* RuntimeOptions.test_mode: Option<bool> (None when options are absent).
Opts == {"none", "true", "false"}
\* std::env::var("NODE_ENV")
NodeEnvs == {"test", "production", "unset"}
\* EndpointName (service, endpoint) keys, request payloads, and the values a
\* host callback or a remote service may answer with.
Keys == {"orders.create", "orders.list"}
Payloads == {"req"}
Values == {"id1", "id2"}
RemoteValue == "remote"
\* The thread of the host's single execution context.
HostThread == 1
Slots == 1..MaxReqs
\* The names the host asks for, and those the service's topology declares:
\* topics, SubName{topic, subscription} pairs, gateways and secrets.
Topics == {"orders-events", "unknown"}
DeclaredTopics == {"orders-events"}
SubNames == {"orders-events/mailer", "orders-events/audit", "unknown/mailer"}
DeclaredSubs == {"orders-events/mailer"}
GatewayNames == {"api-gateway", "missing"}
DeclaredGateways == {"api-gateway"}
SecretNames == {"StripeKey", "unconfigured"}
ConfiguredSecrets == {"StripeKey"}
MsgSlots == 1..MaxMsgs

VARIABLES
    cfg,     \* the runtime configuration in the process environment
    RUNTIME, \* static RUNTIME: OnceLock<napi::Result<Arc<core::Runtime>>>
    inits,   \* the init_runtime invocations so far: their test_mode arguments
    cores,   \* the cores built so far; a core's identity is its index
    loops,   \* the threads spawned to run core.run_blocking()
    pc,      \* where each thread stands inside Runtime::new
    news,    \* the Runtime::new calls that returned, with what they returned
    futs,    \* the futures of the run_forever calls
    regs,    \* the routes handed to register_handler so far, with the outcome;
             \* a wrapped handler's identity is its index
    regby,   \* the Runtime object each of those routes was handed to
    reqs,    \* the endpoint calls in flight, by slot
    host,    \* the callback the host context is executing: a slot of reqs,
             \* MaxReqs + a slot of msgs, or 0 for none
    subs,    \* the subscriptions obtained: the core and SubName of each; a
             \* message handler's identity is its index
    msgs,    \* the messages being delivered to message handlers, by slot
    ret      \* what the step just taken returned to the host, when it is the
             \* return of a register_* call or of an api_call

pubsub == <<subs, msgs>>
api == <<regs, regby, reqs, host, pubsub>>
vars == <<cfg, RUNTIME, inits, cores, loops, pc, news, futs, regs, regby, reqs, host, subs, msgs, ret>>

\* ------------------------------------------------------------ results
Ok(core) == [ok |-> TRUE, v |-> core]
\* The error of the n-th init_runtime invocation.
Err(n) == [ok |-> FALSE, v |-> n]

\* No request in a slot, and a step that returns nothing to the host.
NoReq == [st |-> "free", obj |-> 0, core |-> 0, key |-> "", data |-> "", h |-> 0, val |-> ""]
NoMsg == [st |-> "free", h |-> 0]
NoCall == [op |-> "none", core |-> 0, routes |-> <<>>, key |-> "", ok |-> TRUE, val |-> ""]

CellEmpty == [state |-> "incomplete", ok |-> FALSE, v |-> 0]
CellVal == [ok |-> RUNTIME.ok, v |-> RUNTIME.v]

\* ------------------------------------------------------- Runtime::new
\* options.test_mode.unwrap_or(NODE_ENV == "test")
TestMode(opt, nodeEnv) ==
    IF opt = "none" THEN nodeEnv = "test" ELSE opt = "true"

\* encore_runtime_core::Runtime::builder()...build(): fails on a malformed
\* environment.
BuildOk == cfg # "bad"

\* The core a successful build yields: a new core, with an API server when
\* the configuration hosts one, and no loop running.
BuiltCore(test_mode) ==
    [test |-> test_mode, server |-> cfg = "api", reg |-> [k \in Keys |-> 0],
     topics |-> DeclaredTopics, subs |-> DeclaredSubs,
     gateways |-> DeclaredGateways, secrets |-> ConfiguredSecrets]

\* init_runtime(test_mode): Ok(core) for a new core, or the build's error
\* wrapped into a GenericFailure.
InitResultUnchecked == Ok(Len(cores) + 1)
InitResult == IF BuildOk THEN Ok(Len(cores) + 1) ELSE Err(Len(inits) + 1)

init_runtime(test_mode) ==
    /\ inits' = Append(inits, test_mode)
    /\ cores' = IF BuildOk THEN Append(cores, BuiltCore(test_mode)) ELSE cores

\* `if test_mode { ... return }`: only the non-test path goes on to RUNTIME.
UsesCellAlways(test_mode) == TRUE
UsesCell(test_mode) == ~test_mode

\* The inner `if test_mode` around thread::spawn.
SpawnOnNewNever(test_mode) == FALSE
SpawnOnNewAlways(test_mode) == TRUE
SpawnOnNew(test_mode) == test_mode

\* OnceLock::get_or_init, seen from a caller that finds the cell in `state`:
\* a complete cell is read, an incomplete one makes the caller the one
\* initializer, and a cell being initialized blocks the caller.
GetOrInitAgain(state) ==
    CASE state = "running" -> "wait"
      [] OTHER -> "init"
GetOrInitRacy(state) ==
    CASE state = "complete" -> "read"
      [] OTHER -> "init"
GetOrInit(state) ==
    CASE state = "complete" -> "read"
      [] state = "incomplete" -> "init"
      [] OTHER -> "wait"

\* What get_or_init stores when the closure returns `res`: the Result itself,
\* a failure included (the cell holds napi::Result<...>).
CellStoreTry(res) ==
    IF res.ok THEN [state |-> "complete", ok |-> res.ok, v |-> res.v]
    ELSE CellEmpty
CellStore(res) == [state |-> "complete", ok |-> res.ok, v |-> res.v]

\* A returned Runtime::new call: its test_mode, what it returned, the path it
\* took ("test", or through the cell: "init", "read", "blocked") and the
\* environment it returned in.
Returned(test_mode, res, via) ==
    Append(news, [test |-> test_mode, ok |-> res.ok, v |-> res.v, via |-> via, cfg |-> cfg])

InFlight == Cardinality({t \in Threads : pc[t].at # "idle"})

\* Runtime::new in test mode: init_runtime(true)?, then the loop is spawned
\* and the object returned.
NewTest(t, opt, nodeEnv) ==
    LET tm == TestMode(opt, nodeEnv) IN
    /\ pc[t].at = "idle"
    /\ Len(news) + InFlight < MaxNew
    /\ ~UsesCell(tm)
    /\ init_runtime(tm)
    /\ loops' = IF BuildOk /\ SpawnOnNew(tm)
                THEN Append(loops, [core |-> Len(cores) + 1, st |-> "running"])
                ELSE loops
    /\ news' = Returned(tm, InitResult, "test")
    /\ ret' = NoCall
    /\ UNCHANGED <<cfg, RUNTIME, pc, futs, api>>

\* Runtime::new outside test mode, up to RUNTIME.get_or_init(...): the caller
\* reads a complete cell and returns, or starts the closure, or blocks.
NewSingleton(t, opt, nodeEnv) ==
    LET tm == TestMode(opt, nodeEnv)
        step == GetOrInit(RUNTIME.state) IN
    /\ pc[t].at = "idle"
    /\ Len(news) + InFlight < MaxNew
    /\ UsesCell(tm)
    /\ CASE step = "read" ->
              /\ news' = Returned(tm, CellVal, "read")
              /\ UNCHANGED <<RUNTIME, pc>>
         [] step = "init" ->
              /\ RUNTIME' = [RUNTIME EXCEPT !.state = "running"]
              /\ pc' = [pc EXCEPT ![t] = [at |-> "init", test |-> tm]]
              /\ UNCHANGED news
         [] OTHER ->
              /\ pc' = [pc EXCEPT ![t] = [at |-> "blocked", test |-> tm]]
              /\ UNCHANGED <<RUNTIME, news>>
    /\ ret' = NoCall
    /\ UNCHANGED <<cfg, inits, cores, loops, futs, api>>

\* The closure `|| Ok(Arc::new(init_runtime(false)?))` runs to its end, the
\* cell is set and the initializing caller returns `.clone()?`.
InitDone(t) ==
    /\ pc[t].at = "init"
    /\ init_runtime(FALSE)
    /\ RUNTIME' = CellStore(InitResult)
    /\ news' = Returned(pc[t].test, InitResult, "init")
    /\ pc' = [pc EXCEPT ![t] = [at |-> "idle", test |-> FALSE]]
    /\ loops' = IF BuildOk /\ SpawnOnNew(FALSE)
                THEN Append(loops, [core |-> Len(cores) + 1, st |-> "running"])
                ELSE loops
    /\ ret' = NoCall
    /\ UNCHANGED <<cfg, futs, api>>

\* A caller blocked in get_or_init goes on once the cell is no longer being
\* initialized.
Unblock(t) ==
    LET step == GetOrInit(RUNTIME.state) IN
    /\ pc[t].at = "blocked"
    /\ step # "wait"
    /\ IF step = "read"
       THEN /\ news' = Returned(pc[t].test, CellVal, "blocked")
            /\ pc' = [pc EXCEPT ![t] = [at |-> "idle", test |-> FALSE]]
            /\ UNCHANGED RUNTIME
       ELSE /\ RUNTIME' = [RUNTIME EXCEPT !.state = "running"]
            /\ pc' = [pc EXCEPT ![t] = [at |-> "init", test |-> pc[t].test]]
            /\ UNCHANGED news
    /\ ret' = NoCall
    /\ UNCHANGED <<cfg, inits, cores, loops, futs, api>>

\* The process environment changes between calls.
EnvChange(c) ==
    /\ c # cfg
    /\ cfg' = c
    /\ ret' = NoCall
    /\ UNCHANGED <<RUNTIME, inits, cores, loops, pc, news, futs, api>>

\* ------------------------------------------------------- run_forever
\* The Runtime objects: the Runtime::new calls that returned Ok.
Objs == {o \in 1..Len(news) : news[o].ok}
CoreOf(o) == news[o].v

\* futures::future::pending::<()>().await, polled: never ready, whatever the
\* spawned thread did.
PendingPollJoin(loopState) ==
    CASE loopState = "returned" -> "resolved"
      [] loopState = "panicked" -> "rejected"
      [] OTHER -> "pending"
PendingPoll(loopState) == "pending"

\* The loop threads spawned so far on core c.
LoopsOn(c) == {l \in 1..Len(loops) : loops[l].core = c}

\* run_forever's thread::spawn is unconditional: it does not look at whether
\* the core's loop was started before.
SpawnOnRunForeverOnce(started) == ~started
SpawnOnRunForever(started) == TRUE

\* run_forever is an async fn whose body spawns the loop on a thread of its
\* own and then awaits pending(): the host context that called it gets back a
\* promise and goes on as it was.
HostHeldByLoop(h) == MaxReqs + MaxMsgs + 1
HostAfterRunForever(h) == h

\* run_forever(): the core handle is cloned, the thread running run_blocking
\* is spawned, and the future suspends on pending().
run_forever(o) ==
    LET spawn == SpawnOnRunForever(LoopsOn(CoreOf(o)) # {}) IN
    /\ o \in Objs
    /\ Len(futs) < MaxRun
    /\ loops' = IF spawn THEN Append(loops, [core |-> CoreOf(o), st |-> "running"])
                ELSE loops
    /\ futs' = Append(futs, [core |-> CoreOf(o), st |-> PendingPoll("running"),
                             loop |-> IF spawn THEN Len(loops) + 1
                                      ELSE CHOOSE l \in LoopsOn(CoreOf(o)) : TRUE])
    /\ host' = HostAfterRunForever(host)
    /\ ret' = NoCall
    /\ UNCHANGED <<cfg, RUNTIME, inits, cores, pc, news, regs, regby, reqs, pubsub>>

\* Any later poll of the suspended body.
RunForeverPoll(i) ==
    /\ i \in 1..Len(futs)
    /\ futs[i].st = "pending"
    /\ futs' = [futs EXCEPT ![i].st = PendingPoll(loops[futs[i].loop].st)]
    /\ ret' = NoCall
    /\ UNCHANGED <<cfg, RUNTIME, inits, cores, loops, pc, news, api>>

\* core.run_blocking() returns on its thread.
LoopReturn(l) ==
    /\ l \in 1..Len(loops)
    /\ loops[l].st = "running"
    /\ loops' = [loops EXCEPT ![l].st = "returned"]
    /\ ret' = NoCall
    /\ UNCHANGED <<cfg, RUNTIME, inits, cores, pc, news, futs, api>>

\* core.run_blocking() panics on its thread.
LoopPanic(l) ==
    /\ l \in 1..Len(loops)
    /\ loops[l].st = "running"
    /\ loops' = [loops EXCEPT ![l].st = "panicked"]
    /\ ret' = NoCall
    /\ UNCHANGED <<cfg, RUNTIME, inits, cores, pc, news, futs, api>>

\* ------------------------------------------------ handler registration

\* An APIRoute as register_handler sees it: its EndpointName, and whether
\* new_api_handler can wrap route.handler.
Routes == [key : Keys, wrap : BOOLEAN]
RECURSIVE SeqsUpTo(_, _)
SeqsUpTo(S, n) ==
    IF n = 0 THEN {<<>>}
    ELSE LET shorter == SeqsUpTo(S, n - 1) IN
         shorter \cup {Append(q, x) : q \in {r \in shorter : Len(r) = n - 1}, x \in S}

\* self.runtime.api().server(): Some(srv) when the core hosts an API server.
HasServer(rg, c) == rg.cores[c].server

\* srv.register_handler(endpoint, handler) in the core: a key that already has
\* a handler is rejected and keeps it.
CoreRegister(reg, key, h) ==
    IF reg[key] # 0 THEN [ok |-> FALSE, reg |-> reg]
    ELSE [ok |-> TRUE, reg |-> [reg EXCEPT ![key] = h]]

\* `let Some(srv) = ... else { return Ok(()) }`: without a server the call
\* returns Ok and never reaches the core.
NoServerFails == FALSE
NoServerOk == TRUE

\* `.map_err(...)` on the core's answer: a rejection stays a failure.
RegisterResultIgnored(coreOk) == TRUE
RegisterResult(coreOk) == coreOk

\* register_handler(route) on core c, as a function of the registration state
\* rg = [cores, regs]: the handler is wrapped first (`new_api_handler(...)?`),
\* then the server is looked up, then the core is asked to register.
RegisterHandlerOn(rg, c, route) ==
    LET h == Len(rg.regs) + 1
        entry(out) == [core |-> c, key |-> route.key, out |-> out] IN
    IF ~route.wrap
    THEN [cores |-> rg.cores, regs |-> Append(rg.regs, entry("wrapfail")), ok |-> FALSE]
    ELSE IF ~HasServer(rg, c)
    THEN [cores |-> rg.cores, regs |-> Append(rg.regs, entry("noserver")), ok |-> NoServerOk]
    ELSE LET r == CoreRegister(rg.cores[c].reg, route.key, h) IN
         [cores |-> [rg.cores EXCEPT ![c].reg = r.reg],
          regs |-> Append(rg.regs, entry(IF r.ok THEN "ok" ELSE "rejected")),
          ok |-> RegisterResult(r.ok)]

\* `self.register_handler(env, route)?` inside the loop: a failure ends it.
StopOnErrorNever(ok) == FALSE
StopOnError(ok) == ~ok

\* register_handlers(routes): `for route in routes { register_handler(route)? }`
RECURSIVE RegisterHandlersOn(_, _, _)
RegisterHandlersOn(rg, c, routes) ==
    IF routes = <<>> THEN [cores |-> rg.cores, regs |-> rg.regs, ok |-> TRUE]
    ELSE LET one == RegisterHandlerOn(rg, c, Head(routes)) IN
         IF StopOnError(one.ok) THEN one
         ELSE RegisterHandlersOn(one, c, Tail(routes))

\* register_test_handler's body is `self.register_handler(env, route)`.
RegisterTestHandlerNoop(rg, c, route) == [cores |-> rg.cores, regs |-> rg.regs, ok |-> TRUE]
RegisterTestHandlerOn(rg, c, route) == RegisterHandlerOn(rg, c, route)

Registration == [cores |-> cores, regs |-> regs]

register_handler(o, route) ==
    LET r == RegisterHandlerOn(Registration, CoreOf(o), route) IN
    /\ o \in Objs
    /\ Len(regs) < MaxRoutes
    /\ cores' = r.cores
    /\ regs' = r.regs
    /\ regby' = regby \o [i \in 1..(Len(r.regs) - Len(regs)) |-> o]
    /\ ret' = [NoCall EXCEPT !.op = "register_handler", !.core = CoreOf(o),
                              !.routes = <<route>>, !.ok = r.ok]
    /\ UNCHANGED <<cfg, RUNTIME, inits, loops, pc, news, futs, reqs, host, pubsub>>

\* register_test_handler(route): `self.register_handler(env, route)`
register_test_handler(o, route) ==
    LET r == RegisterTestHandlerOn(Registration, CoreOf(o), route) IN
    /\ o \in Objs
    /\ Len(regs) < MaxRoutes
    /\ cores' = r.cores
    /\ regs' = r.regs
    /\ regby' = regby \o [i \in 1..(Len(r.regs) - Len(regs)) |-> o]
    /\ ret' = [NoCall EXCEPT !.op = "register_test_handler", !.core = CoreOf(o),
                              !.routes = <<route>>, !.ok = r.ok]
    /\ UNCHANGED <<cfg, RUNTIME, inits, loops, pc, news, futs, reqs, host, pubsub>>

register_handlers(o, routes) ==
    LET r == RegisterHandlersOn(Registration, CoreOf(o), routes) IN
    /\ o \in Objs
    /\ Len(regs) + Len(routes) <= MaxRoutes
    /\ cores' = r.cores
    /\ regs' = r.regs
    /\ regby' = regby \o [i \in 1..(Len(r.regs) - Len(regs)) |-> o]
    /\ ret' = [NoCall EXCEPT !.op = "register_handlers", !.core = CoreOf(o),
                              !.routes = routes, !.ok = r.ok]
    /\ UNCHANGED <<cfg, RUNTIME, inits, loops, pc, news, futs, reqs, host, pubsub>>

\* ----------------------------------------------------------- api_call
FreeSlots == {s \in Slots : reqs[s].st = "free"}
LowestFree == CHOOSE s \in FreeSlots : \A u \in FreeSlots : s <= u

\* The core serves requests while some thread runs its run_blocking().
LoopRunning(c) == \E l \in 1..Len(loops) : loops[l].core = c /\ loops[l].st = "running"

\* api_call(service, endpoint, data, source): the call is handed to
\* self.runtime.api().call(&endpoint, data, source) and awaited.
api_call(o, key, data) ==
    /\ o \in Objs
    /\ FreeSlots # {}
    /\ reqs' = [reqs EXCEPT ![LowestFree] =
                   [NoReq EXCEPT !.st = "sent", !.obj = o, !.core = CoreOf(o), !.key = key,
                                 !.data = data]]
    /\ ret' = NoCall
    /\ UNCHANGED <<cfg, RUNTIME, inits, cores, loops, pc, news, futs, regs, regby, host, pubsub>>

\* The core routes a call: to the handler registered for the endpoint when
\* this core hosts it, otherwise out of the process, where it fails or is
\* answered by another service.
CoreRoute(s, out) ==
    LET r == reqs[s]
        local == cores[r.core].server /\ cores[r.core].reg[r.key] # 0 IN
    /\ r.st = "sent"
    /\ LoopRunning(r.core)
    /\ IF local
       THEN /\ out = "dispatched"
            /\ reqs' = [reqs EXCEPT ![s].st = "dispatched",
                                    ![s].h = cores[r.core].reg[r.key]]
       ELSE /\ out \in {"failed", "remote"}
            /\ reqs' = [reqs EXCEPT ![s].st = out,
                                    ![s].val = IF out = "remote" THEN RemoteValue ELSE ""]
    /\ ret' = NoCall
    /\ UNCHANGED <<cfg, RUNTIME, inits, cores, loops, pc, news, futs, regs, regby, host, pubsub>>

\* A wrapped callback is started on the host context, and only when that
\* context executes nothing else.
HostFreeOrNot == TRUE
HostFree == host = 0

\* The wrapped handler's invocation reaches the host context, which starts the
\* callback when it runs nothing else.
HostBegin(s) ==
    /\ reqs[s].st = "dispatched"
    /\ HostFree
    /\ host' = s
    /\ reqs' = [reqs EXCEPT ![s].st = "running"]
    /\ ret' = NoCall
    /\ UNCHANGED <<cfg, RUNTIME, inits, cores, loops, pc, news, futs, regs, regby, pubsub>>

\* The callback returns a value or throws, and the outcome is handed back to
\* the core.
HostEnd(s, out) ==
    /\ host = s
    /\ reqs[s].st = "running"
    /\ host' = 0
    /\ reqs' = [reqs EXCEPT ![s].st = IF out = "throw" THEN "threw" ELSE "answered",
                            ![s].val = IF out = "throw" THEN "" ELSE out]
    /\ ret' = NoCall
    /\ UNCHANGED <<cfg, RUNTIME, inits, cores, loops, pc, news, futs, regs, regby, pubsub>>

\* What the core's call returned for a finished request.
CoreAnswer(r) == [ok |-> r.st \in {"answered", "remote"}, val |-> r.val]

\* `.await.map_err(...)`: the core's payload as it is, or its error wrapped
\* into a GenericFailure.
ApiCallResultEcho(ans, data) == [ok |-> TRUE, val |-> data]
ApiCallResult(ans, data) == [ok |-> ans.ok, val |-> IF ans.ok THEN ans.val ELSE ""]

Finished(r) == r.st \in {"answered", "threw", "failed", "remote"}

\* `.await` on the core's call: api_call resumes when that call has
\* completed, and not before.
AwaitedOrTimedOut(r) == r.st # "free"
Awaited(r) == Finished(r)

\* The core's call completes and api_call returns to the host.
ApiReturn(s) ==
    LET r == reqs[s]
        res == ApiCallResult(CoreAnswer(r), r.data) IN
    /\ Awaited(r)
    /\ reqs' = [reqs EXCEPT ![s] = NoReq]
    /\ ret' = [NoCall EXCEPT !.op = "api_call", !.core = r.core, !.key = r.key,
                              !.ok = res.ok, !.val = res.val]
    /\ UNCHANGED <<cfg, RUNTIME, inits, cores, loops, pc, news, futs, regs, regby, host, pubsub>>

\* ------------------------------------------------------------ accessors
\* pubsub_topic(name): `.topic(name).ok_or_else(|| "topic not found")?`, as a
\* function of the cores: a lookup, which declares nothing.
PubsubTopicDeclaring(cs, c, name) ==
    [cores |-> [cs EXCEPT ![c].topics = @ \cup {name}], ok |-> TRUE, val |-> name]
PubsubTopicOn(cs, c, name) ==
    IF name \in cs[c].topics THEN [cores |-> cs, ok |-> TRUE, val |-> name]
    ELSE [cores |-> cs, ok |-> FALSE, val |-> "topic not found"]

pubsub_topic(o, name) ==
    LET r == PubsubTopicOn(cores, CoreOf(o), name) IN
    /\ o \in Objs
    /\ cores' = r.cores
    /\ ret' = [NoCall EXCEPT !.op = "pubsub_topic", !.core = CoreOf(o), !.key = name,
                              !.ok = r.ok, !.val = r.val]
    /\ UNCHANGED <<cfg, RUNTIME, inits, loops, pc, news, futs, api>>

\* A PubSubSubscriptionConfig as pubsub_subscription sees it: its SubName and
\* whether cfg.to_handler can wrap its handler.
SubCfgs == [name : SubNames, wrap : BOOLEAN]

\* pubsub_subscription(cfg): the handler is wrapped first
\* (`cfg.to_handler(env)?`), then the subscription is looked up
\* (`.ok_or_else(|| "subscription not found")?`).
PubsubSubscriptionOn(cs, c, scfg) ==
    IF ~scfg.wrap THEN [ok |-> FALSE, val |-> "handler not wrapped"]
    ELSE IF scfg.name \notin cs[c].subs THEN [ok |-> FALSE, val |-> "subscription not found"]
    ELSE [ok |-> TRUE, val |-> scfg.name]

pubsub_subscription(o, scfg) ==
    LET r == PubsubSubscriptionOn(cores, CoreOf(o), scfg) IN
    /\ o \in Objs
    /\ Len(subs) < MaxSubs
    /\ subs' = IF r.ok THEN Append(subs, [core |-> CoreOf(o), name |-> scfg.name]) ELSE subs
    /\ ret' = [NoCall EXCEPT !.op = "pubsub_subscription", !.core = CoreOf(o),
                              !.routes = <<scfg>>, !.key = scfg.name,
                              !.ok = r.ok, !.val = r.val]
    /\ UNCHANGED <<cfg, RUNTIME, inits, cores, loops, pc, news, futs, regs, regby,
                   reqs, host, msgs>>

\* Gateway::new(env, gw, cfg) for `gw = .gateway(&name).cloned()`: an Option
\* handed on as it is; a gateway object is returned around it, None included.
GatewayNew(gw) == [ok |-> TRUE, val |-> gw]

gateway(o, name) ==
    LET gw == IF name \in cores[CoreOf(o)].gateways THEN name ELSE "none"
        r == GatewayNew(gw) IN
    /\ o \in Objs
    /\ ret' = [NoCall EXCEPT !.op = "gateway", !.core = CoreOf(o), !.key = name,
                              !.ok = r.ok, !.val = r.val]
    /\ UNCHANGED <<cfg, RUNTIME, inits, cores, loops, pc, news, futs, api>>

\* `.app_secret(name).map(Secret::new)`: an Option, returned as it is.
SecretOrErr(found, name) ==
    [ok |-> found, val |-> IF found THEN name ELSE "secret not found"]
SecretResult(found, name) ==
    [ok |-> TRUE, val |-> IF found THEN name ELSE "none"]

secret(o, name) ==
    LET r == SecretResult(name \in cores[CoreOf(o)].secrets, name) IN
    /\ o \in Objs
    /\ ret' = [NoCall EXCEPT !.op = "secret", !.core = CoreOf(o), !.key = name,
                              !.ok = r.ok, !.val = r.val]
    /\ UNCHANGED <<cfg, RUNTIME, inits, cores, loops, pc, news, futs, api>>

\* ------------------------------------------------------ message delivery
\* The host-context value of the callback of message slot m.
MsgCtx(m) == MaxReqs + m

\* The core, while its loop runs, delivers a message to the handler of a
\* subscription.
Deliver(m, h) ==
    /\ h \in 1..Len(subs)
    /\ msgs[m].st = "free"
    /\ LoopRunning(subs[h].core)
    /\ msgs' = [msgs EXCEPT ![m] = [st |-> "dispatched", h |-> h]]
    /\ ret' = NoCall
    /\ UNCHANGED <<cfg, RUNTIME, inits, cores, loops, pc, news, futs, regs, regby,
                   reqs, host, subs>>

\* The message handler's invocation reaches the host context, which starts
\* the callback when it runs nothing else.
MsgBegin(m) ==
    /\ msgs[m].st = "dispatched"
    /\ HostFree
    /\ host' = MsgCtx(m)
    /\ msgs' = [msgs EXCEPT ![m].st = "running"]
    /\ ret' = NoCall
    /\ UNCHANGED <<cfg, RUNTIME, inits, cores, loops, pc, news, futs, regs, regby,
                   reqs, subs>>

\* The callback returns or throws, and success or failure is handed back to
\* the core.
MsgEnd(m, out) ==
    /\ host = MsgCtx(m)
    /\ msgs[m].st = "running"
    /\ host' = 0
    /\ msgs' = [msgs EXCEPT ![m].st = out]
    /\ ret' = NoCall
    /\ UNCHANGED <<cfg, RUNTIME, inits, cores, loops, pc, news, futs, regs, regby,
                   reqs, subs>>

\* The core's delivery completes with the callback's outcome.
MsgDone(m) ==
    /\ msgs[m].st \in {"acked", "nacked"}
    /\ msgs' = [msgs EXCEPT ![m] = NoMsg]
    /\ ret' = NoCall
    /\ UNCHANGED <<cfg, RUNTIME, inits, cores, loops, pc, news, futs, regs, regby,
                   reqs, host, subs>>

\* ------------------------------------------------------ specification
Init ==
    /\ cfg \in Cfgs
    /\ RUNTIME = CellEmpty
    /\ inits = <<>>
    /\ cores = <<>>
    /\ loops = <<>>
    /\ pc = [t \in Threads |-> [at |-> "idle", test |-> FALSE]]
    /\ news = <<>>
    /\ futs = <<>>
    /\ regs = <<>>
    /\ regby = <<>>
    /\ reqs = [s \in Slots |-> NoReq]
    /\ host = 0
    /\ subs = <<>>
    /\ msgs = [m \in MsgSlots |-> NoMsg]
    /\ ret = NoCall

\* Threads construct Runtime objects, concurrently, in a changing environment.
Next ==
    \/ \E t \in Threads, opt \in Opts, nodeEnv \in NodeEnvs : NewTest(t, opt, nodeEnv)
    \/ \E t \in Threads, opt \in Opts, nodeEnv \in NodeEnvs : NewSingleton(t, opt, nodeEnv)
    \/ \E t \in Threads : InitDone(t)
    \/ \E t \in Threads : Unblock(t)
    \/ \E c \in Cfgs : EnvChange(c)

Spec == Init /\ [][Next]_vars

\* A host that constructs its Runtime objects on its own thread.
HostNew ==
    \/ \E opt \in Opts, nodeEnv \in NodeEnvs : NewTest(HostThread, opt, nodeEnv)
    \/ \E opt \in Opts, nodeEnv \in NodeEnvs : NewSingleton(HostThread, opt, nodeEnv)
    \/ InitDone(HostThread)

\* The host constructs up to MaxObjs objects and runs them; loops may end.
NextRun ==
    \/ HostNew /\ Len(news') + InFlight' <= MaxObjs
    \/ \E o \in 1..MaxObjs : run_forever(o)
    \/ \E i \in 1..MaxRun : RunForeverPoll(i)
    \/ \E l \in 1..(MaxObjs + MaxRun) : LoopReturn(l)
    \/ \E l \in 1..(MaxObjs + MaxRun) : LoopPanic(l)

SpecRun == Init /\ [][NextRun]_vars

\* A host under test constructs up to MaxServing test-mode objects, each with
\* its own core and loop, registers handlers and makes and serves endpoint
\* calls.
NextApi ==
    \/ \E opt \in Opts, nodeEnv \in NodeEnvs :
           NewTest(HostThread, opt, nodeEnv) /\ Len(news') <= MaxServing
    \/ \E o \in 1..MaxServing, route \in Routes : register_handler(o, route)
    \/ \E o \in 1..MaxServing, key \in Keys, data \in Payloads : api_call(o, key, data)
    \/ \E s \in Slots, out \in {"dispatched", "failed", "remote"} : CoreRoute(s, out)
    \/ \E s \in Slots : HostBegin(s)
    \/ \E s \in Slots, out \in Values \cup {"throw"} : HostEnd(s, out)
    \/ \E s \in Slots : ApiReturn(s)

SpecApi == Init /\ [][NextApi]_vars

\* The host constructs up to MaxObjs objects and registers handlers through
\* the three register_* operations.
NextReg ==
    \/ HostNew /\ Len(news') + InFlight' <= MaxObjs
    \/ \E o \in 1..MaxObjs, route \in Routes : register_handler(o, route)
    \/ \E o \in 1..MaxObjs, route \in Routes : register_test_handler(o, route)
    \/ \E o \in 1..MaxObjs, routes \in SeqsUpTo(Routes, MaxList) : register_handlers(o, routes)

SpecReg == Init /\ [][NextReg]_vars

\* The routes whose handler new_api_handler can wrap.
Wrappable == {route \in Routes : route.wrap}
Idle == \A s \in Slots : reqs[s].st = "free"

\* The host obtains up to MaxShared objects outside test mode, registers
\* wrappable handlers through them, starts the loop with run_forever and
\* makes endpoint calls, one at a time, which the core serves.
NextShared ==
    \/ \E opt \in Opts, nodeEnv \in NodeEnvs :
           NewSingleton(HostThread, opt, nodeEnv) /\ Len(news') + InFlight' <= MaxShared
    \/ InitDone(HostThread)
    \/ \E o \in 1..MaxShared : run_forever(o)
    \/ \E o \in 1..MaxShared, route \in Wrappable : register_handler(o, route)
    \/ \E o \in 1..MaxShared, key \in Keys, data \in Payloads :
           Idle /\ api_call(o, key, data)
    \/ \E s \in Slots, out \in {"dispatched", "failed", "remote"} : CoreRoute(s, out)
    \/ \E s \in Slots : HostBegin(s)
    \/ \E s \in Slots, out \in Values \cup {"throw"} : HostEnd(s, out)
    \/ \E s \in Slots : ApiReturn(s)

SpecShared == Init /\ [][NextShared]_vars

\* The same host, with a scheduler that runs every callback queued on the
\* host context and callbacks that end.
SpecLive ==
    /\ Init /\ [][NextShared]_vars
    /\ \A s \in Slots : SF_vars(HostBegin(s))
    /\ \A s \in Slots : WF_vars(\E out \in Values \cup {"throw"} : HostEnd(s, out))

\* The host constructs up to MaxObjs objects and asks them for topics,
\* subscriptions, gateways and secrets.
NextAcc ==
    \/ HostNew /\ Len(news') + InFlight' <= MaxObjs
    \/ \E o \in 1..MaxObjs, name \in Topics : pubsub_topic(o, name)
    \/ \E o \in 1..MaxObjs, scfg \in SubCfgs : pubsub_subscription(o, scfg)
    \/ \E o \in 1..MaxObjs, name \in GatewayNames : gateway(o, name)
    \/ \E o \in 1..MaxObjs, name \in SecretNames : secret(o, name)

SpecAcc == Init /\ [][NextAcc]_vars

\* The subscription configs that yield a subscription.
Subscribable == {scfg \in SubCfgs : scfg.wrap /\ scfg.name \in DeclaredSubs}

\* The endpoint of the host under test.
HostedKey == "orders.create"

\* A host under test constructs up to MaxServing test-mode objects, registers
\* wrappable handlers for its endpoint and obtains subscriptions; the core
\* hands calls, one at a time, and messages to their handlers, which run on
\* the host.
NextHost ==
    \/ \E opt \in Opts, nodeEnv \in NodeEnvs :
           NewTest(HostThread, opt, nodeEnv) /\ Len(news') <= MaxServing
    \/ \E o \in 1..MaxServing, route \in Wrappable :
           route.key = HostedKey /\ register_handler(o, route)
    \/ \E o \in 1..MaxServing, scfg \in Subscribable : pubsub_subscription(o, scfg)
    \/ \E o \in 1..MaxServing, data \in Payloads :
           Idle /\ api_call(o, HostedKey, data)
    \/ \E s \in Slots, out \in {"dispatched", "failed"} : CoreRoute(s, out)
    \/ \E s \in Slots : HostBegin(s)
    \/ \E s \in Slots, out \in {"id1", "throw"} : HostEnd(s, out)
    \/ \E s \in Slots : ApiReturn(s)
    \/ \E m \in MsgSlots, h \in 1..MaxSubs : Deliver(m, h)
    \/ \E m \in MsgSlots : MsgBegin(m)
    \/ \E m \in MsgSlots, out \in {"acked", "nacked"} : MsgEnd(m, out)
    \/ \E m \in MsgSlots : MsgDone(m)

SpecHost == Init /\ [][NextHost]_vars

\* ---------------------------------------------------------- properties
NonTest == {i \in 1..Len(news) : ~news[i].test}
SingletonInits == {n \in 1..Len(inits) : ~inits[n]}
Grew == Len(news') = Len(news) + 1
Newest == news'[Len(news')]

\* C1: over all concurrent and sequential non-test Runtime::new calls,
\* init_runtime(false) runs at most once, exactly once as soon as one call has
\* returned, and all the calls that returned got the same outcome: the one
\* same core, or the one same InitError.
C1_SingletonInitOnce ==
    /\ Cardinality(SingletonInits) <= 1
    /\ NonTest # {} => Cardinality(SingletonInits) = 1
    /\ \A i, j \in NonTest : news[i].ok = news[j].ok /\ news[i].v = news[j].v

\* Two callers raced for the first initialization (one ran the closure, one
\* blocked on it) and a third came later; all three have returned.
C1_Witness ==
    \E i, j, k \in NonTest :
        news[i].via = "init" /\ news[j].via = "blocked" /\ news[k].via = "read"

\* C2: once set, the cell never changes; and once a non-test call has
\* returned an InitError, every non-test call that returns later returns that
\* same InitError without running init_runtime again, whatever the
\* environment is by then.
C2_FailureIsPermanent ==
    [][/\ RUNTIME.state = "complete" => RUNTIME' = RUNTIME
       /\ \A i \in NonTest :
             (~news[i].ok /\ Grew /\ ~Newest.test) =>
                 /\ ~Newest.ok
                 /\ Newest.v = news[i].v
                 /\ inits' = inits]_vars

\* A non-test call returned the cached failure while the environment was
\* valid again.
C2_Witness ==
    \E i \in NonTest :
        news[i].via = "read" /\ ~news[i].ok /\ news[i].cfg # "bad" /\ ~RUNTIME.ok

\* C4: a test-mode Runtime::new, successful or not, leaves the cell as it
\* was, and its outcome is decided by the environment alone: it succeeds
\* exactly when the build does, whatever the cell holds.
C4_TestModeBypassesCell ==
    [][(Grew /\ Newest.test) =>
          /\ RUNTIME' = RUNTIME
          /\ Newest.ok = (cfg # "bad")
          /\ Newest.via = "test"]_vars

\* A test-mode construction succeeded after the singleton's failure had been
\* cached, and a non-test construction succeeded after a test-mode failure.
C4_Witness ==
    /\ \E i, j \in 1..Len(news) :
          i < j /\ ~news[i].test /\ ~news[i].ok /\ news[j].test /\ news[j].ok
    /\ RUNTIME.state = "complete" /\ ~RUNTIME.ok

\* The loop threads that no run_forever call spawned: those of construction.
BuiltInLoops(c) ==
    {l \in 1..Len(loops) : loops[l].core = c /\ \A f \in 1..Len(futs) : futs[f].loop # l}

\* C5: a successful test-mode Runtime::new has spawned the thread running the
\* new core's run_blocking() by the time it returns, and returns while that
\* loop is still running; the loop owes nothing to a run_forever call.
C5_TestModeStartsLoop ==
    /\ [](\A o \in Objs : news[o].test => BuiltInLoops(CoreOf(o)) # {})
    /\ [][(Grew /\ Newest.test /\ Newest.ok) =>
              loops' = Append(loops, [core |-> Newest.v, st |-> "running"])]_vars

\* A test-mode object exists, no run_forever has been called, and its loop
\* runs.
C5_Witness ==
    \E o \in Objs :
        /\ news[o].test
        /\ futs = <<>>
        /\ \E l \in BuiltInLoops(CoreOf(o)) : loops[l].st = "running"

\* C6: the future of every run_forever call stays pending, whether the loop
\* it spawned is running, has returned or has panicked.
C6_RunForeverNeverCompletes ==
    \A f \in 1..Len(futs) : futs[f].st = "pending"

\* One run_forever call's loop has returned and another's has panicked.
C6_Witness ==
    \E f, g \in 1..Len(futs) :
        loops[futs[f].loop].st = "returned" /\ loops[futs[g].loop].st = "panicked"

\* The step is the return of a register_handler, register_test_handler or
\* register_handlers call.
RegisterOps == {"register_handler", "register_test_handler", "register_handlers"}
Registered == ret'.op \in RegisterOps
\* The handlers the core c has accepted for key k, by the record of the calls.
Accepted(c, k) ==
    {h \in 1..Len(regs) : regs[h].core = c /\ regs[h].key = k /\ regs[h].out = "ok"}

\* C3: a test-mode object's core is the core of no other object and not the
\* singleton's, and is new when the call returns; a registration through one
\* object changes no other core, so a route whose key only other cores have
\* accepted is not a duplicate: it is accepted.
C3_TestModeFreshAndIsolated ==
    /\ [](\A o \in Objs : news[o].test =>
            /\ \A p \in Objs \ {o} : CoreOf(p) # CoreOf(o)
            /\ (RUNTIME.state = "complete" /\ RUNTIME.ok) => RUNTIME.v # CoreOf(o))
    /\ [][/\ (Grew /\ Newest.test /\ Newest.ok) =>
                 (Newest.v \notin 1..Len(cores) /\ Newest.v \in 1..Len(cores'))
          /\ Registered =>
                 /\ \A c \in 1..Len(cores) : c # ret'.core => cores'[c] = cores[c]
                 /\ \A k \in Keys :
                       (/\ ret'.routes = <<[key |-> k, wrap |-> TRUE]>>
                        /\ cores[ret'.core].test
                        /\ cores[ret'.core].server
                        /\ Accepted(ret'.core, k) = {}) =>
                           /\ ret'.ok
                           /\ cores'[ret'.core].reg[k] = Len(regs')]_vars

\* Two test-mode objects each hold a handler of their own for the same key.
C3_Witness ==
    \E o, p \in Objs, k \in Keys :
        /\ o # p /\ news[o].test /\ news[p].test
        /\ Accepted(CoreOf(o), k) # {} /\ Accepted(CoreOf(p), k) # {}
        /\ cores[CoreOf(o)].reg[k] # cores[CoreOf(p)].reg[k]

\* Whether the i-th route of the list rs fails on core c, when the routes
\* before it were accepted: its handler cannot be wrapped, or the core hosts a
\* server that already holds its key, from before the call or from the list.
RouteFails(c, rs, i) ==
    \/ ~rs[i].wrap
    \/ /\ cores[c].server
       /\ \/ cores[c].reg[rs[i].key] # 0
          \/ \E j \in 1..(i - 1) : rs[j].key = rs[i].key
FailingRoutes(c, rs) == {i \in 1..Len(rs) : RouteFails(c, rs, i)}
\* The number of routes of rs that are handed to register_handler.
Reached(c, rs) ==
    IF FailingRoutes(c, rs) = {} THEN Len(rs)
    ELSE CHOOSE i \in FailingRoutes(c, rs) : \A j \in FailingRoutes(c, rs) : i <= j

\* C9: register_handlers(routes) hands the routes to register_handler in list
\* order up to the first that fails and returns that one's error, or Ok when
\* none fails; each route before the failing one is registered with its own
\* handler (on a core with a server), no other key gets a handler, and what
\* was registered before the call stays.
C9_RegisterHandlersStopsAtFirstFailure ==
    [][ret'.op = "register_handlers" =>
          LET c == ret'.core
              rs == ret'.routes
              n == Reached(c, rs)
              failed == FailingRoutes(c, rs) # {}
              before == IF failed THEN n - 1 ELSE n
          IN  /\ ret'.ok = ~failed
              /\ Len(regs') = Len(regs) + n
              /\ \A i \in 1..n : regs'[Len(regs) + i].key = rs[i].key
              /\ failed => regs'[Len(regs')].out \in {"wrapfail", "rejected"}
              /\ \A i \in 1..before :
                    /\ regs'[Len(regs) + i].out \in {"ok", "noserver"}
                    /\ cores[c].server => cores'[c].reg[rs[i].key] = Len(regs) + i
              /\ \A k \in Keys :
                    IF cores[c].reg[k] # 0 \/ ~cores[c].server
                    THEN cores'[c].reg[k] = cores[c].reg[k]
                    ELSE (\A i \in 1..before : rs[i].key # k) => cores'[c].reg[k] = 0]_vars

\* A list of two routes was refused at its first route, whose handler could
\* not be wrapped, and the second, which the core would have accepted, was
\* left unregistered.
C9_Witness ==
    /\ ret.op = "register_handlers" /\ ~ret.ok
    /\ Len(ret.routes) = 2
    /\ ~ret.routes[1].wrap /\ ret.routes[2].wrap
    /\ cores[ret.core].server
    /\ cores[ret.core].reg[ret.routes[2].key] = 0
    /\ regs[Len(regs)].out = "wrapfail"

\* A request the core has handed to a handler.
Handled(r) == r.st \in {"dispatched", "running", "answered", "threw"}
\* The step invokes the host callback of the request in slot s.
Invokes(s) == reqs[s].st # "running" /\ reqs'[s].st = "running"

\* C7: on a core with an API server and a running loop, a call to an endpoint
\* with an accepted handler is routed to that handler and nowhere else; the
\* handler's host callback is invoked on the host context, the call is
\* answered only by that callback, and when the callback returns a value
\* api_call returns Ok with exactly that value.
C7_ApiCallReturnsCallbackValue ==
    /\ [](\A s \in Slots :
            Handled(reqs[s]) => reqs[s].h \in Accepted(reqs[s].core, reqs[s].key))
    /\ [][\A s \in Slots :
            /\ (/\ reqs[s].st = "sent" /\ reqs'[s].st # "sent"
                /\ cores[reqs[s].core].server
                /\ Accepted(reqs[s].core, reqs[s].key) # {}) =>
                   (reqs'[s].st = "dispatched" /\ LoopRunning(reqs[s].core))
            /\ Invokes(s) => (reqs[s].st = "dispatched" /\ host' = s)
            /\ (reqs[s].st # "answered" /\ reqs'[s].st = "answered") =>
                   (reqs[s].st = "running" /\ host = s /\ reqs'[s].val \in Values)
            /\ (reqs[s].st = "answered" /\ reqs'[s].st = "free") =>
                   (ret'.op = "api_call" /\ ret'.ok /\ ret'.val = reqs[s].val)]_vars

\* An api_call to a registered endpoint has just returned the value "id1" of
\* the callback.
C7_Witness ==
    /\ ret.op = "api_call" /\ ret.ok /\ ret.val = "id1"
    /\ Accepted(ret.core, ret.key) # {}

\* C8: on a core with an API server, register_handler for a key that already
\* has a handler fails and changes no registration; each key keeps the one
\* handler that was accepted first, and requests are handed to it, never to a
\* handler that was refused.
C8_DuplicateRejectedFirstStays ==
    /\ [](/\ \A c \in 1..Len(cores), k \in Keys :
                IF Accepted(c, k) = {} THEN cores[c].reg[k] = 0
                ELSE Accepted(c, k) = {cores[c].reg[k]}
          /\ \A s \in Slots :
                Handled(reqs[s]) =>
                    /\ reqs[s].h = cores[reqs[s].core].reg[reqs[s].key]
                    /\ regs[reqs[s].h].out = "ok")
    /\ [][(/\ Registered
           /\ cores[ret'.core].server
           /\ Accepted(ret'.core, ret'.routes[1].key) # {}) =>
              (~ret'.ok /\ cores' = cores /\ regs'[Len(regs')].out # "ok")]_vars

\* A second handler for a key was refused by the core, and a request for the
\* key was then answered by the first.
C8_Witness ==
    \E h, g \in 1..Len(regs), s \in Slots :
        /\ h < g /\ regs[h].out = "ok" /\ regs[g].out = "rejected"
        /\ regs[g].core = regs[h].core /\ regs[g].key = regs[h].key
        /\ reqs[s].st = "answered" /\ reqs[s].h = h

\* C10 as claimed: on a core without an API server every register_handler
\* call returns success.
C10_EveryCallSucceeds ==
    (ret.op = "register_handler" /\ ~cores[ret.core].server) => ret.ok

\* C10, amended: on a core without an API server register_handler returns
\* success unless the route's handler cannot be wrapped, in which case it
\* returns that error; either way the cores' registrations are unchanged, and
\* no request is ever handed to a handler given to such a core.
C10_NoServerIsNoop ==
    /\ [](/\ (ret.op = "register_handler" /\ ~cores[ret.core].server) =>
                ret.ok = ret.routes[1].wrap
          /\ \A h \in 1..Len(regs) :
                ~cores[regs[h].core].server =>
                    /\ regs[h].out \in {"noserver", "wrapfail"}
                    /\ \A s \in Slots : reqs[s].h # h)
    /\ [][/\ (Registered /\ ~cores[ret'.core].server) => cores' = cores
          /\ \A s \in Slots : Invokes(s) => cores[regs[reqs[s].h].core].server]_vars

\* register_handler returned success on a core without a server, and a call
\* to that endpoint on that core, with its loop running, ended without having
\* been handed to a handler.
C10_Witness ==
    \E h \in 1..Len(regs), s \in Slots :
        /\ regs[h].out = "noserver"
        /\ reqs[s].core = regs[h].core /\ reqs[s].key = regs[h].key
        /\ reqs[s].st \in {"failed", "remote"} /\ reqs[s].h = 0

\* The step is an init_runtime invocation whose build failed.
BuildFailed == Len(inits') = Len(inits) + 1 /\ Len(cores') = Len(cores)

\* C14: a Runtime::new call whose init_runtime fails, in test mode or not,
\* returns the InitError of that invocation and no object, and starts no loop;
\* every object that was returned wraps a core that was built.
C14_FailedBuildYieldsInitError ==
    /\ [](\A i \in 1..Len(news) : news[i].ok => news[i].v \in 1..Len(cores))
    /\ [][BuildFailed =>
             /\ Grew
             /\ ~Newest.ok
             /\ Newest.v = Len(inits')
             /\ Newest.test = inits'[Len(inits')]
             /\ loops' = loops]_vars

\* A test-mode construction and the singleton's initialization have both
\* failed, and no loop was started.
C14_Witness ==
    /\ \E i, j \in 1..Len(news) :
          /\ news[i].test /\ ~news[i].ok
          /\ ~news[j].test /\ ~news[j].ok /\ news[j].via = "init"
    /\ loops = <<>>

\* C15: from every reachable registration state, for every object and route,
\* register_test_handler computes what register_handler computes, and a
\* register_test_handler call returns and leaves the cores and the wrapped
\* handlers as register_handler would have.
C15_TestHandlerIsRegisterHandler ==
    /\ [](\A o \in Objs, route \in Routes :
            RegisterTestHandlerOn(Registration, CoreOf(o), route)
                = RegisterHandlerOn(Registration, CoreOf(o), route))
    /\ [][ret'.op = "register_test_handler" =>
             LET r == RegisterHandlerOn(Registration, ret'.core, ret'.routes[1]) IN
             /\ ret'.ok = r.ok
             /\ cores' = r.cores
             /\ regs' = r.regs]_vars

\* register_test_handler was refused a key that register_handler had
\* registered, on a core with a server.
C15_Witness ==
    /\ ret.op = "register_test_handler" /\ ~ret.ok
    /\ regs[Len(regs)].out = "rejected"
    /\ cores[ret.core].reg[ret.routes[1].key] < Len(regs)

\* The run_forever calls made on objects wrapping core c.
RunForeverCalls(c) == {f \in 1..Len(futs) : futs[f].core = c}

\* C16 as claimed: no core ever has more than one loop started on it.
C16_AtMostOneLoopPerCore ==
    \A c \in 1..Len(cores) : Cardinality(LoopsOn(c)) <= 1

\* C16, amended: the loops started on a core are one for its test-mode
\* construction, if it was built in test mode, and one for every run_forever
\* call on an object wrapping it; a run_forever call always starts one more.
C16_OneLoopPerStart ==
    /\ [](\A c \in 1..Len(cores) :
            Cardinality(LoopsOn(c))
                = (IF cores[c].test THEN 1 ELSE 0) + Cardinality(RunForeverCalls(c)))
    /\ [][Len(futs') = Len(futs) + 1 =>
             loops' = Append(loops, [core |-> futs'[Len(futs')].core, st |-> "running"])]_vars

\* run_forever was called on a test-mode object whose loop was running: two
\* loops run on its core.
C16_Witness ==
    \E c \in 1..Len(cores) :
        /\ cores[c].test
        /\ Cardinality(RunForeverCalls(c)) = 1
        /\ Cardinality(LoopsOn(c)) = 2
        /\ \A l \in LoopsOn(c) : loops[l].st = "running"

\* The states an endpoint call goes through, one step at a time: made once,
\* routed once, answered once, returned once.
CallSteps ==
    {<<"free", "sent">>, <<"sent", "dispatched">>, <<"sent", "failed">>,
     <<"sent", "remote">>, <<"dispatched", "running">>, <<"running", "answered">>,
     <<"running", "threw">>, <<"answered", "free">>, <<"threw", "free">>,
     <<"failed", "free">>, <<"remote", "free">>}

\* C13: an api_call hands one call to the core and nothing else: the call is
\* never made again after a failure, api_call returns only once the core's
\* call has completed (no timeout, no answer of its own), with a failure when
\* the core's call failed and with the core's payload as it is otherwise.
C13_ApiCallIsOneCoreCall ==
    [][\A s \in Slots :
          /\ reqs'[s].st # reqs[s].st => <<reqs[s].st, reqs'[s].st>> \in CallSteps
          /\ (reqs[s].st # "free" /\ reqs'[s].st # "free") =>
                 /\ reqs'[s].core = reqs[s].core
                 /\ reqs'[s].key = reqs[s].key
                 /\ reqs'[s].data = reqs[s].data
          /\ (reqs[s].st # "free" /\ reqs'[s].st = "free") =>
                 /\ Finished(reqs[s])
                 /\ ret'.op = "api_call"
                 /\ ret'.core = reqs[s].core /\ ret'.key = reqs[s].key
                 /\ ret'.ok = (reqs[s].st \in {"answered", "remote"})
                 /\ ret'.val = (IF ret'.ok THEN reqs[s].val ELSE "")
          /\ ret'.op = "api_call" =>
                 \E u \in Slots : reqs[u].st # "free" /\ reqs'[u].st = "free"]_vars

\* An api_call to a registered endpoint whose callback threw has returned a
\* failure, and nothing is in flight: the call was not made again.
C13_Witness ==
    /\ ret.op = "api_call" /\ ~ret.ok /\ ret.val = ""
    /\ Accepted(ret.core, ret.key) # {}
    /\ cores[ret.core].reg[ret.key] # 0
    /\ \A s \in Slots : reqs[s].st = "free"

\* The objects obtained outside test mode.
Shared == {o \in Objs : ~news[o].test}

C20_SingletonLoopNeedsRunForever ==
    /\ [](\A c \in 1..Len(cores) :
            (~cores[c].test /\ RunForeverCalls(c) = {}) =>
                /\ LoopsOn(c) = {}
                /\ ~LoopRunning(c)
                /\ \A s \in Slots : reqs[s].core = c => ~Handled(reqs[s]))
    /\ [][/\ (Grew /\ ~Newest.test) => loops' = loops
          /\ \A s \in Slots :
                (Invokes(s) /\ ~cores[reqs[s].core].test) =>
                    RunForeverCalls(reqs[s].core) # {}]_vars

\* Before any run_forever: an object was obtained outside test mode, its core
\* holds a handler, and a call to that endpoint waits unserved.
C20_Witness ==
    \E s \in Slots :
        /\ futs = <<>> /\ loops = <<>>
        /\ reqs[s].st = "sent" /\ reqs[s].obj \in Shared
        /\ cores[reqs[s].core].reg[reqs[s].key] # 0

\* C18: a run_forever call spawns the loop on a thread of its own and leaves
\* the host context as it was; the host context only ever executes callbacks,
\* so every invocation the core dispatches while run_forever calls are
\* suspended is executed on the host and answered.
C18_RunForeverLeavesHostFree ==
    /\ [][Len(futs') = Len(futs) + 1 =>
             /\ host' = host
             /\ futs'[Len(futs')].st = "pending"
             /\ loops' = Append(loops, [core |-> futs'[Len(futs')].core, st |-> "running"])]_vars
    /\ [](host \in {0} \cup Slots)
    /\ \A s \in Slots :
          (reqs[s].st = "dispatched" /\ futs # <<>>) ~> (reqs[s].st \in {"answered", "threw"})

\* With a run_forever call suspended, a dispatched invocation has been
\* executed on the host and answered.
C18_Witness ==
    \E s \in Slots, f \in 1..Len(futs) :
        /\ futs[f].st = "pending" /\ futs[f].core = reqs[s].core
        /\ ~cores[reqs[s].core].test
        /\ reqs[s].st = "answered" /\ host = 0

\* C11 as claimed: a lookup of an undeclared topic or subscription fails with
\* the "not found" error of its kind.
C11_UndeclaredIsNotFound ==
    /\ (ret.op = "pubsub_topic" /\ ret.key \notin cores[ret.core].topics) =>
           (~ret.ok /\ ret.val = "topic not found")
    /\ (ret.op = "pubsub_subscription" /\ ret.key \notin cores[ret.core].subs) =>
           (~ret.ok /\ ret.val = "subscription not found")

\* C11, amended: pubsub_topic of an undeclared topic fails with "topic not
\* found"; pubsub_subscription of an undeclared pair fails, with
\* "subscription not found" when the config's handler could be wrapped and
\* with the wrapping's error otherwise; no lookup, failed or not, changes what
\* the cores declare, a failed one yields no subscription, and in every state
\* reached the same lookups fail again.
C11_UndeclaredLookupFails ==
    /\ [](/\ (ret.op = "pubsub_topic" /\ ret.key \notin cores[ret.core].topics) =>
                (~ret.ok /\ ret.val = "topic not found")
          /\ (ret.op = "pubsub_subscription" /\ ret.key \notin cores[ret.core].subs) =>
                /\ ~ret.ok
                /\ ret.val = (IF ret.routes[1].wrap THEN "subscription not found"
                              ELSE "handler not wrapped")
          /\ \A c \in 1..Len(cores) :
                cores[c].topics = DeclaredTopics /\ cores[c].subs = DeclaredSubs
          /\ \A o \in Objs :
                /\ \A name \in Topics \ DeclaredTopics :
                      ~PubsubTopicOn(cores, CoreOf(o), name).ok
                /\ \A scfg \in SubCfgs :
                      scfg.name \notin DeclaredSubs =>
                          ~PubsubSubscriptionOn(cores, CoreOf(o), scfg).ok)
    /\ [][ret'.op \in {"pubsub_topic", "pubsub_subscription"} =>
             /\ cores' = cores
             /\ ~ret'.ok => subs' = subs]_vars

\* A subscription of an undeclared topic was refused as not found, by an
\* object that could have had the declared one.
C11_Witness ==
    /\ ret.op = "pubsub_subscription" /\ ~ret.ok
    /\ ret.key = "unknown/mailer" /\ ret.val = "subscription not found"
    /\ subs = <<>>
    /\ cores[ret.core].subs = DeclaredSubs

\* C12: secret(name) and gateway(name, config) never fail: for an
\* unconfigured secret the answer is no value, for a name without a declared
\* gateway it is a gateway object around no gateway, and for a known name it
\* is the secret or the gateway of that name; the cores are left as they were.
C12_AbsenceIsNotAFailure ==
    /\ [](/\ ret.op = "secret" =>
                /\ ret.ok
                /\ ret.val = (IF ret.key \in cores[ret.core].secrets THEN ret.key ELSE "none")
          /\ ret.op = "gateway" =>
                /\ ret.ok
                /\ ret.val = (IF ret.key \in cores[ret.core].gateways THEN ret.key ELSE "none"))
    /\ [][ret'.op \in {"secret", "gateway"} => cores' = cores]_vars

\* gateway("missing") has returned a gateway object around no gateway.
C12_Witness ==
    /\ ret.op = "gateway" /\ ret.key = "missing"
    /\ ret.key \notin cores[ret.core].gateways
    /\ ret.ok /\ ret.val = "none"

\* The callbacks the host context could be executing.
Callbacks == Slots \cup {MsgCtx(m) : m \in MsgSlots}
Executing ==
    {s \in Slots : reqs[s].st = "running"}
        \cup {MsgCtx(m) : m \in {n \in MsgSlots : msgs[n].st = "running"}}

\* C17: a callback of an endpoint handler or of a message handler runs only
\* as what the host context executes, so never two at a time; it is started
\* only for a dispatched invocation and only when the host context is free;
\* and the core-side invocation ends only after the callback has ended, with
\* the outcome the callback handed back.
C17_CallbacksRunOnHostOnly ==
    /\ [](/\ host \in {0} \cup Callbacks
          /\ Executing = {host} \ {0}
          /\ Cardinality(Executing) <= 1)
    /\ [][/\ \A s \in Slots :
                /\ Invokes(s) => (reqs[s].st = "dispatched" /\ host = 0 /\ host' = s)
                /\ (reqs[s].st = "running" /\ reqs'[s].st # "running") =>
                       (reqs'[s].st \in {"answered", "threw"} /\ host = s /\ host' = 0)
                /\ (Handled(reqs[s]) /\ reqs'[s].st = "free") =>
                       reqs[s].st \in {"answered", "threw"}
          /\ \A m \in MsgSlots :
                /\ (msgs[m].st # "running" /\ msgs'[m].st = "running") =>
                       (msgs[m].st = "dispatched" /\ host = 0 /\ host' = MsgCtx(m))
                /\ (msgs[m].st = "running" /\ msgs'[m].st # "running") =>
                       (msgs'[m].st \in {"acked", "nacked"} /\ host = MsgCtx(m) /\ host' = 0)
                /\ (msgs[m].st # "free" /\ msgs'[m].st = "free") =>
                       msgs[m].st \in {"acked", "nacked"}]_vars

\* An endpoint invocation waits, dispatched, while the host context executes
\* the callback of a message handler.
C17_Witness ==
    \E s \in Slots, m \in MsgSlots :
        /\ reqs[s].st = "dispatched"
        /\ msgs[m].st = "running"
        /\ host = MsgCtx(m)

====
